---- MODULE Spec2Model ----
(***************************************************************************)
(* ObjectCounter: the annotation canvas (components/ItemCanvas.tsx) and    *)
(* the composition root that owns its state (App.tsx), as a state machine. *)
(*                                                                         *)
(* JavaScript numbers are modelled as exact rationals with the three       *)
(* IEEE-754 specials (NaN, +Infinity, -Infinity) and a separate null /     *)
(* undefined value.  Negative zero is identified with zero, and rounding   *)
(* of binary fractions is not modelled: every value the model computes is  *)
(* an exact rational (the click positions are chosen so that every         *)
(* Euclidean distance is an integer).                                      *)
(***************************************************************************)
EXTENDS Integers, Sequences, FiniteSets, TLC

----------------------------------------------------------------------------
(* Numbers *)

Abs(i) == IF i < 0 THEN -i ELSE i

RECURSIVE Gcd(_, _)
Gcd(a, b) == IF b = 0 THEN a ELSE Gcd(b, a % b)

\* A finite number n/d in lowest terms with d > 0.
Fin(n, d) ==
  LET s == IF d < 0 THEN -1 ELSE 1
      g == Gcd(Abs(n), Abs(d))
  IN  [k |-> "fin", n |-> (s * n) \div g, d |-> (s * d) \div g]

Num(i)  == [k |-> "fin", n |-> i, d |-> 1]
NaN     == [k |-> "nan", n |-> 0, d |-> 1]
PosInf  == [k |-> "inf", n |-> 1, d |-> 1]
NegInf  == [k |-> "inf", n |-> -1, d |-> 1]
\* null (CalibrationData.pixelsPerMm) and undefined (ItemInstance.widthMm).
Null    == [k |-> "null", n |-> 0, d |-> 1]

Sign(a)   == IF a.n > 0 THEN 1 ELSE IF a.n < 0 THEN -1 ELSE 0

\* JavaScript truthiness of a number | null: null, NaN and 0 are falsy.
Truthy(a) == a.k = "inf" \/ (a.k = "fin" /\ a.n # 0)

\* Number(x) > 0 && Number.isFinite(x)
PositiveFinite(a) == a.k = "fin" /\ a.n > 0

\* a - b
Sub(a, b) ==
  IF a.k = "nan" \/ b.k = "nan" THEN NaN
  ELSE IF a.k = "inf" /\ b.k = "inf"
       THEN (IF a.n = b.n THEN NaN ELSE a)
  ELSE IF a.k = "inf" THEN a
  ELSE IF b.k = "inf" THEN (IF b.n > 0 THEN NegInf ELSE PosInf)
  ELSE Fin(a.n * b.d - b.n * a.d, a.d * b.d)

\* a + b
Add(a, b) ==
  IF a.k = "nan" \/ b.k = "nan" THEN NaN
  ELSE IF a.k = "inf" /\ b.k = "inf"
       THEN (IF a.n = b.n THEN a ELSE NaN)
  ELSE IF a.k = "inf" THEN a
  ELSE IF b.k = "inf" THEN b
  ELSE Fin(a.n * b.d + b.n * a.d, a.d * b.d)

\* a * b
Mul(a, b) ==
  IF a.k = "nan" \/ b.k = "nan" THEN NaN
  ELSE IF a.k = "inf" \/ b.k = "inf"
       THEN (IF Sign(a) * Sign(b) = 0 THEN NaN
             ELSE IF Sign(a) * Sign(b) > 0 THEN PosInf ELSE NegInf)
  ELSE Fin(a.n * b.n, a.d * b.d)

\* a / b with IEEE-754 results for a zero or non-finite operand.
Div(a, b) ==
  IF a.k = "nan" \/ b.k = "nan" THEN NaN
  ELSE IF a.k = "inf" /\ b.k = "inf" THEN NaN
  ELSE IF a.k = "inf"
       THEN (IF Sign(b) < 0 THEN (IF a.n > 0 THEN NegInf ELSE PosInf) ELSE a)
  ELSE IF b.k = "inf" THEN Num(0)
  ELSE IF b.n = 0
       THEN (IF a.n = 0 THEN NaN ELSE IF a.n > 0 THEN PosInf ELSE NegInf)
  ELSE Fin(a.n * b.d, a.d * b.n)

\* a <= b as JavaScript compares numbers: false when either is NaN.
Leq(a, b) ==
  IF a.k = "nan" \/ b.k = "nan" THEN FALSE
  ELSE IF a.k = "inf" THEN (a.n < 0 \/ b = a)
  ELSE IF b.k = "inf" THEN b.n > 0
  ELSE a.n * b.d <= b.n * a.d

\* The largest r with r * r <= n, by bisection on lo..hi.
RECURSIVE ISqrtIn(_, _, _)
ISqrtIn(n, lo, hi) ==
  IF lo >= hi THEN lo
  ELSE LET mid == (lo + hi + 1) \div 2
       IN  IF mid * mid <= n THEN ISqrtIn(n, mid, hi) ELSE ISqrtIn(n, lo, mid - 1)

ISqrt(n) == ISqrtIn(n, 0, IF n < 46340 THEN n ELSE 46340)

\* Math.sqrt: exact when the argument is the square of a rational, else
\* rounded down to two decimal places.
Sqrt(a) ==
  IF a.k = "nan" THEN NaN
  ELSE IF a.k = "inf" THEN (IF a.n > 0 THEN PosInf ELSE NaN)
  ELSE IF a.n < 0 THEN NaN
  ELSE LET m == a.n * a.d
           r == ISqrt(m)
       IN  IF r * r = m THEN Fin(r, a.d)
           ELSE Fin(ISqrt(m * 100 * 100), a.d * 100)

\* Number(x.toFixed(2)): the nearest multiple of 1/100, a tie going away
\* from zero; NaN and the infinities print and parse back as themselves.
ToFixed2(a) ==
  IF a.k # "fin" THEN a
  ELSE Fin(Sign(a) * ((2 * 100 * Abs(a.n) + a.d) \div (2 * a.d)), 100)

----------------------------------------------------------------------------
(* Bounds *)

\* Vertices a mask may grow to.
MaxMaskLen == 2
\* Pending setTimeout callbacks of startCalibration.
MaxTimers == 1
\* processBatch calls awaiting analyzeItems.
MaxAnalyses == 1
\* FileReader loads in flight.
MaxReads == 1
\* Batch images the operator can upload.
NumImages == 2
\* Image loads of the canvas effect that are pending at once.
MaxLoads == 2

Images == 1..NumImages

----------------------------------------------------------------------------
(* Data model (types.ts) *)

\* Point
Pt(x, y) == [x |-> Num(x), y |-> Num(y)]
NoPoint  == [x |-> Null, y |-> Null]

\* The drawing surface: canvas.width = containerWidth,
\* canvas.height = img.height * (containerWidth / img.width).
CanvasWidth  == 600
CanvasHeight == 800

\* Pointer positions (clientX - rect.left, clientY - rect.top) the operator
\* clicks at; every pair is an integer distance apart.
ClickPoints == {Pt(0, 0), Pt(18, 24)}
\* Pointer positions the operator moves over: the click positions and one
\* that lies outside every bounding box.
MovePoints == ClickPoints \cup {Pt(420, 560)}

\* Render space to normalized detection space.
ToNormalized(p) ==
  [x |-> Mul(Div(p.x, Num(CanvasWidth)), Num(1000)),
   y |-> Mul(Div(p.y, Num(CanvasHeight)), Num(1000))]

\* ToRenderSpace with the result clamped to the canvas.
ToRenderSpaceClamped(n) ==
  LET x == Mul(Div(n.x, Num(1000)), Num(CanvasWidth))
      y == Mul(Div(n.y, Num(1000)), Num(CanvasHeight))
      Clamp(v, hi) == IF Leq(v, Num(0)) THEN Num(0)
                      ELSE IF Leq(Num(hi), v) THEN Num(hi) ELSE v
  IN  [x |-> Clamp(x, CanvasWidth), y |-> Clamp(y, CanvasHeight)]

\* Normalized detection space to render space.
ToRenderSpace(n) ==
  [x |-> Mul(Div(n.x, Num(1000)), Num(CanvasWidth)),
   y |-> Mul(Div(n.y, Num(1000)), Num(CanvasHeight))]

\* ItemInstance ids; NoId stands for null.
NoId == "-"

\* ItemInstance as the detection service returns it (no widthMm/heightMm).
Item(id, box, mask) ==
  [id |-> id,
   boundingBox |-> <<Num(box[1]), Num(box[2]), Num(box[3]), Num(box[4])>>,
   mask |-> mask, confidence |-> Fin(9, 10), areaPx |-> Num(1200),
   widthMm |-> Null, heightMm |-> Null, label |-> "washer"]

\* Item lists analyzeItems can resolve to.  Two overlapping boxes, the
\* first with a mask and the second without:
Overlapping ==
  << Item("a", <<30, 30, 500, 380>>, <<Pt(30, 30)>>),
     Item("b", <<0, 0, 600, 600>>, <<>>) >>
\* a single small box that reuses the first id:
Single ==
  << Item("a", <<10, 10, 30, 40>>, <<Pt(10, 10)>>) >>
\* and an entry whose box is inverted and leaves the normalized range
\* (the response schema types the four coordinates only as numbers):
Malformed ==
  << Item("m", <<700, 400, 300, 1200>>, <<>>) >>

\* AnalysisResult | null
NoResult     == [some |-> FALSE, items |-> <<>>]
Some(items)  == [some |-> TRUE, items |-> items]


\* What the reference-length input can parse to (parseFloat of a number
\* input): a valid length and zero.
RefValues == {Num(10), Num(0)}

\* What the operator, the detection service and the browser do in one run
\* of the application: the reference lengths typed, the item lists returned,
\* the length up to which masks are grown, whether the Scale button is used,
\* whether the service can fail, the images uploaded, and whether the image
\* loads of the canvas effect are deferred past later events (they are
\* delivered before the next event otherwise).
Sessions ==
  { [refValues |-> RefValues, detections |-> {Single}, maskLimit |-> 0,
     scale |-> TRUE, rejects |-> FALSE, images |-> {1},
     deferredLoads |-> FALSE],
    [refValues |-> {Num(10)}, detections |-> {Overlapping},
     maskLimit |-> MaxMaskLen - 1, scale |-> TRUE, rejects |-> FALSE,
     images |-> {1}, deferredLoads |-> FALSE],
    [refValues |-> {}, detections |-> {Overlapping},
     maskLimit |-> MaxMaskLen, scale |-> FALSE, rejects |-> FALSE,
     images |-> {1}, deferredLoads |-> FALSE],
    [refValues |-> {}, detections |-> {Malformed}, maskLimit |-> 0,
     scale |-> FALSE, rejects |-> FALSE, images |-> Images,
     deferredLoads |-> FALSE],
    [refValues |-> {}, detections |-> {Single}, maskLimit |-> 0,
     scale |-> TRUE, rejects |-> TRUE, images |-> {1},
     deferredLoads |-> FALSE],
    [refValues |-> {}, detections |-> {Single}, maskLimit |-> MaxMaskLen,
     scale |-> FALSE, rejects |-> FALSE, images |-> {1},
     deferredLoads |-> TRUE] }

----------------------------------------------------------------------------
(* State *)

VARIABLES
  appState,          \* App: AppState
  batchImage,        \* App: 0 for null, else the uploaded image
  result,            \* App: AnalysisResult | null
  selectedItemId,    \* App
  isCalibratingInit, \* App
  editMode,          \* App
  calibration,       \* App: CalibrationData
  error,             \* App: TRUE when an error message is set, FALSE for null
  hoveredItemId,     \* ItemCanvas
  calPoints,         \* ItemCanvas: the in-progress calibration click buffer
  readers,           \* FileReader loads in flight (the image each will deliver)
  timers,            \* pending setTimeout callbacks of startCalibration
  analyses,          \* processBatch calls suspended at await analyzeItems
  session,           \* the run's repertoire of inputs (never changes)
  loads,             \* ItemCanvas: pending Image loads of the effect, as
                     \* [pending, latest]: how many, and whether the newest
                     \* was created in the commit that is current
  surface,           \* the canvas: "blank", or "latest" / "stale" as the
                     \* frame last painted was rendered from the current
                     \* commit's props or from an earlier commit's
  armedClicks,       \* history: canvas clicks handled since appState last
                     \* became CALIBRATING, 0 outside it (no action reads it)
  analysedImage,     \* history: the image the result in state was computed
                     \* from, 0 when result is null (no action reads it)
  olderLoads         \* history: how many pending loads were created before
                     \* the one painted last (no action reads it)

vars == <<appState, batchImage, result, selectedItemId,
          isCalibratingInit, editMode, calibration, hoveredItemId, calPoints,
          readers, timers, analyses, session, armedClicks,
          error, loads, surface, analysedImage, olderLoads>>

appVars    == <<appState, batchImage, result, selectedItemId,
                isCalibratingInit, editMode, calibration>>
canvasVars == <<hoveredItemId, calPoints>>
asyncVars  == <<readers, timers, analyses, session>>

\* The sequence s without its i-th element.
RemoveAt(s, i) == [j \in 1..(Len(s) - 1) |-> IF j < i THEN s[j] ELSE s[j + 1]]

\* ItemCanvas is rendered only in the branch where batchImage is set.
CanvasMounted == batchImage # 0
\* The workspace sidebar replaces the setup form outside SETUP.
Workspace == appState # "SETUP"
\* isCalibrating={appState === AppState.CALIBRATING}
isCalibrating == appState = "CALIBRATING"

\* The history kept by a step: the clicks of the calibration episode the step
\* stays in, none when it enters or leaves CALIBRATING.
EpisodeStep(clicks) ==
  armedClicks' = IF appState = "CALIBRATING" /\ appState' = "CALIBRATING"
                 THEN armedClicks + clicks ELSE 0

\* The dependency list of the effect of ItemCanvas, showMasks and showBoxes
\* left out (the display toggles keep their initial values).
deps == <<batchImage, result, hoveredItemId, calibration, isCalibrating,
          calPoints, editMode, selectedItemId>>

\* The effect of ItemCanvas as run by the commit a step ends in: when a
\* dependency has changed, or the canvas has just been mounted, it starts an
\* Image load whose onload paints the frame of this commit, and every load
\* still pending now belongs to an earlier commit.  Unmounting the canvas
\* leaves the pending onloads without a canvas to paint.  With loads that
\* are not deferred the frame is painted before the next event.
useEffect ==
  IF ~CanvasMounted'
  THEN /\ loads' = [pending |-> 0, latest |-> FALSE]
       /\ surface' = "blank"
       /\ olderLoads' = 0
  ELSE IF ~session.deferredLoads
  THEN /\ loads' = [pending |-> 0, latest |-> FALSE]
       /\ surface' = "latest"
       /\ olderLoads' = 0
  ELSE IF CanvasMounted /\ deps' = deps
  THEN UNCHANGED <<loads, surface, olderLoads>>
  ELSE /\ loads.pending < MaxLoads
       /\ loads' = [pending |-> loads.pending + 1, latest |-> TRUE]
       /\ surface' = IF surface = "blank" THEN "blank" ELSE "stale"
       /\ UNCHANGED olderLoads

Init ==
  /\ appState = "SETUP"
  /\ batchImage = 0
  /\ result = NoResult
  /\ selectedItemId = NoId
  /\ isCalibratingInit = FALSE
  /\ editMode = FALSE
  /\ calibration = [referenceLengthMm |-> Num(10), pixelsPerMm |-> Null,
                    startPoint |-> NoPoint, endPoint |-> NoPoint]
  /\ hoveredItemId = NoId
  /\ calPoints = <<>>
  /\ readers = <<>>
  /\ timers = 0
  /\ analyses = <<>>
  /\ session \in Sessions
  /\ armedClicks = 0
  /\ error = FALSE
  /\ loads = [pending |-> 0, latest |-> FALSE]
  /\ surface = "blank"
  /\ analysedImage = 0
  /\ olderLoads = 0

----------------------------------------------------------------------------
(* Pure helpers of App.tsx and ItemCanvas.tsx *)

\* updatePhysicalMetrics keeping only the items that have a mask.
updatePhysicalMetricsMaskedOnly(items, pxMm) ==
  LET kept == SelectSeq(items, LAMBDA s : s.mask # <<>>)
  IN  [i \in 1..Len(kept) |->
         LET s == kept[i]
             widthPx  == Mul(Sub(s.boundingBox[4], s.boundingBox[2]), Num(5))
             heightPx == Mul(Sub(s.boundingBox[3], s.boundingBox[1]), Num(5))
         IN  [s EXCEPT !.widthMm  = ToFixed2(Div(widthPx, pxMm)),
                       !.heightMm = ToFixed2(Div(heightPx, pxMm))]]

\* updatePhysicalMetrics without the toFixed(2) rounding.
updatePhysicalMetricsUnrounded(items, pxMm) ==
  [i \in 1..Len(items) |->
     LET s == items[i]
         widthPx  == Mul(Sub(s.boundingBox[4], s.boundingBox[2]), Num(5))
         heightPx == Mul(Sub(s.boundingBox[3], s.boundingBox[1]), Num(5))
     IN  [s EXCEPT !.widthMm  = Div(widthPx, pxMm),
                   !.heightMm = Div(heightPx, pxMm)]]

\* updatePhysicalMetrics rescaling a measurement the item already carries.
updatePhysicalMetricsRescaling(items, pxMm) ==
  [i \in 1..Len(items) |->
     LET s == items[i]
         widthPx  == IF s.widthMm.k = "null"
                     THEN Mul(Sub(s.boundingBox[4], s.boundingBox[2]), Num(5))
                     ELSE s.widthMm
         heightPx == IF s.heightMm.k = "null"
                     THEN Mul(Sub(s.boundingBox[3], s.boundingBox[1]), Num(5))
                     ELSE s.heightMm
     IN  [s EXCEPT !.widthMm  = ToFixed2(Div(widthPx, pxMm)),
                   !.heightMm = ToFixed2(Div(heightPx, pxMm))]]

\* updatePhysicalMetrics(items, pxMm)
updatePhysicalMetrics(items, pxMm) ==
  [i \in 1..Len(items) |->
     LET s == items[i]
         widthPx  == Mul(Sub(s.boundingBox[4], s.boundingBox[2]), Num(5))
         heightPx == Mul(Sub(s.boundingBox[3], s.boundingBox[1]), Num(5))
     IN  [s EXCEPT !.widthMm  = ToFixed2(Div(widthPx, pxMm)),
                   !.heightMm = ToFixed2(Div(heightPx, pxMm))]]

\* pxPerMmOf without the square root.
pxPerMmOfSquared(points, referenceLengthMm) ==
  LET dx == Sub(points[2].x, points[1].x)
      dy == Sub(points[2].y, points[1].y)
  IN  Div(Add(Mul(dx, dx), Mul(dy, dy)), referenceLengthMm)

\* handleCalibrationUpdate: distPx / calibration.referenceLengthMm
pxPerMmOf(points, referenceLengthMm) ==
  LET dx == Sub(points[2].x, points[1].x)
      dy == Sub(points[2].y, points[1].y)
      distPx == Sqrt(Add(Mul(dx, dx), Mul(dy, dy)))
  IN  Div(distPx, referenceLengthMm)

\* calibrationPair that loses the second point.
calibrationPairFirstOnly(newPoints) == <<newPoints[1], NoPoint>>

\* handleClick: the pair handed to onCalibrationUpdate on the second click.
calibrationPair(newPoints) == <<newPoints[1], newPoints[2]>>

\* handleMouseMove: the bounding-box test of one item.
boxContains(s, x, y) ==
  /\ Leq(s.boundingBox[2], x) /\ Leq(x, s.boundingBox[4])
  /\ Leq(s.boundingBox[1], y) /\ Leq(y, s.boundingBox[3])

\* result.items.find(pred)?.id || null, for a pred given as the set of
\* indices that satisfy it.
firstId(items, hits) ==
  IF hits = {} THEN NoId
  ELSE items[CHOOSE i \in hits : \A j \in hits : i <= j].id

\* hitTest resolving overlapping boxes to the last item that matches.
hitTestLast(items, p) ==
  LET n == ToNormalized(p)
      hits == {i \in 1..Len(items) : boxContains(items[i], n.x, n.y)}
  IN  IF hits = {} THEN NoId
      ELSE items[CHOOSE i \in hits : \A j \in hits : j <= i].id

\* handleMouseMove: the id the pointer position resolves to.
hitTest(items, p) ==
  LET n == ToNormalized(p)
  IN  firstId(items, {i \in 1..Len(items) : boxContains(items[i], n.x, n.y)})

\* result.items.find(i => i.id === id) as the index found, 0 for undefined.
findIndex(items, id) ==
  LET hits == {i \in 1..Len(items) : items[i].id = id}
  IN  IF hits = {} THEN 0 ELSE CHOOSE i \in hits : \A j \in hits : i <= j

\* withMask replacing the mask of every item.
withMaskAll(items, itemId, newMask) ==
  [i \in 1..Len(items) |-> [items[i] EXCEPT !.mask = newMask]]

\* handleMaskUpdate / clearSelectedMask: items with the mask of itemId replaced.
withMask(items, itemId, newMask) ==
  [i \in 1..Len(items) |->
     IF items[i].id = itemId THEN [items[i] EXCEPT !.mask = newMask]
     ELSE items[i]]

\* appendVertex putting the new vertex first.
appendVertexFirst(mask, p) == <<ToNormalized(p)>> \o mask

\* handleClick, edit branch: [...item.mask, { x: normX, y: normY }]
appendVertex(mask, p) == Append(mask, ToNormalized(p))

\* clearSelectedMaskOf emptying every mask of the result.
clearSelectedMaskOfAll(res, id) ==
  IF id = NoId \/ ~res.some THEN res
  ELSE [res EXCEPT !.items =
          [i \in 1..Len(res.items) |-> [res.items[i] EXCEPT !.mask = <<>>]]]

\* clearSelectedMask: the result it stores, res itself on its early return.
clearSelectedMaskOf(res, id) ==
  IF id = NoId \/ ~res.some THEN res
  ELSE [res EXCEPT !.items = withMask(res.items, id, <<>>)]

----------------------------------------------------------------------------
(* App.tsx: operator actions and asynchronous completions *)

\* "Continue to Workspace".  The button is disabled while metadata.name is
\* empty; the name is free operator input that nothing else reads, so the
\* step stands for typing a name (when there is none) and pressing it.
continueToWorkspace ==
  /\ appState = "SETUP"
  /\ appState' = "IDLE"
  /\ UNCHANGED <<batchImage, result, selectedItemId,
                 isCalibratingInit, editMode, calibration, canvasVars, asyncVars,
                 error, analysedImage>>
  /\ EpisodeStep(0)
  /\ useEffect

\* A click on the header returns to the setup form.
returnToSetup ==
  /\ appState' = "SETUP"
  /\ UNCHANGED <<batchImage, result, selectedItemId,
                 isCalibratingInit, editMode, calibration, canvasVars, asyncVars,
                 error, analysedImage>>
  /\ EpisodeStep(0)
  /\ useEffect

\* handleBatchUpload: a file is picked and a FileReader starts reading it.
handleBatchUpload(img) ==
  /\ Workspace
  /\ appState \notin {"PROCESSING", "CALIBRATING"}
  /\ ~isCalibratingInit
  /\ Len(readers) < MaxReads
  /\ readers' = Append(readers, img)
  /\ UNCHANGED <<appVars, canvasVars, timers, analyses, session,
                 error, analysedImage>>
  /\ EpisodeStep(0)
  /\ useEffect

\* reader.onload of handleBatchUpload.
batchReaderLoaded(i) ==
  /\ i \in 1..Len(readers)
  /\ batchImage' = readers[i]
  /\ appState' = "IDLE"
  /\ result' = NoResult
  /\ error' = FALSE
  /\ readers' = RemoveAt(readers, i)
  /\ analysedImage' = 0
  /\ UNCHANGED <<selectedItemId, isCalibratingInit, editMode,
                 calibration, canvasVars, timers, analyses, session>>
  /\ EpisodeStep(0)
  /\ useEffect

\* processBatch up to its await: the continuation keeps the batchImage and
\* calibration of the render whose button was clicked.
processBatch ==
  /\ Workspace
  /\ batchImage # 0
  /\ appState = "IDLE"
  /\ Len(analyses) < MaxAnalyses
  /\ appState' = "PROCESSING"
  /\ error' = FALSE
  /\ analyses' = Append(analyses, [image |-> batchImage,
                                   pixelsPerMm |-> calibration.pixelsPerMm])
  /\ UNCHANGED <<batchImage, result, selectedItemId,
                 isCalibratingInit, editMode, calibration, canvasVars,
                 readers, timers, session, analysedImage>>
  /\ EpisodeStep(0)
  /\ useEffect

\* The result processBatch stores once analyzeItems has resolved to items.
analysisResult(items, pixelsPerMm) ==
  Some(IF Truthy(pixelsPerMm) THEN updatePhysicalMetrics(items, pixelsPerMm)
       ELSE items)

\* processBatch after its await, analyzeItems having resolved.
analysisResolved(i, items) ==
  /\ i \in 1..Len(analyses)
  /\ result' = analysisResult(items, analyses[i].pixelsPerMm)
  /\ appState' = "REVIEW"
  /\ analyses' = RemoveAt(analyses, i)
  /\ analysedImage' = analyses[i].image
  /\ UNCHANGED <<batchImage, selectedItemId, isCalibratingInit, editMode,
                 calibration, canvasVars, readers, timers, session, error>>
  /\ EpisodeStep(0)
  /\ useEffect

\* processBatch after its await, analyzeItems having rejected.
analysisRejected(i) ==
  /\ i \in 1..Len(analyses)
  /\ session.rejects
  /\ error' = TRUE
  /\ appState' = "IDLE"
  /\ analyses' = RemoveAt(analyses, i)
  /\ UNCHANGED <<batchImage, result, selectedItemId,
                 isCalibratingInit, editMode, calibration, canvasVars,
                 readers, timers, session, analysedImage>>
  /\ EpisodeStep(0)
  /\ useEffect

\* The "Geometric Scale" panel is rendered when result && appState !== CALIBRATING.
ScalePanel == Workspace /\ result.some /\ appState # "CALIBRATING"

\* setReferenceLength that also invalidates the derived scale.
setReferenceLengthResetting(v) ==
  /\ ScalePanel
  /\ calibration' = [referenceLengthMm |-> v, pixelsPerMm |-> Null,
                     startPoint |-> NoPoint, endPoint |-> NoPoint]
  /\ UNCHANGED <<appState, batchImage, result, selectedItemId,
                 isCalibratingInit, editMode, canvasVars, asyncVars,
                 error, analysedImage>>
  /\ EpisodeStep(0)
  /\ useEffect

\* onChange of the reference length input.
setReferenceLength(v) ==
  /\ ScalePanel
  /\ calibration' = [calibration EXCEPT !.referenceLengthMm = v]
  /\ UNCHANGED <<appState, batchImage, result, selectedItemId,
                 isCalibratingInit, editMode, canvasVars, asyncVars,
                 error, analysedImage>>
  /\ EpisodeStep(0)
  /\ useEffect

\* startCalibration (the Scale button).
startCalibration ==
  /\ ScalePanel
  /\ session.scale
  /\ timers < MaxTimers
  /\ isCalibratingInit' = TRUE
  /\ timers' = timers + 1
  /\ UNCHANGED <<appState, batchImage, result, selectedItemId,
                 editMode, calibration, canvasVars, readers, analyses, session,
                 error, analysedImage>>
  /\ EpisodeStep(0)
  /\ useEffect

\* The setTimeout callback of startCalibration.
calibrationTimeout ==
  /\ timers > 0
  /\ timers' = timers - 1
  /\ isCalibratingInit' = FALSE
  /\ appState' = "CALIBRATING"
  /\ UNCHANGED <<batchImage, result, selectedItemId, editMode,
                 calibration, canvasVars, readers, analyses, session,
                 error, analysedImage>>
  /\ EpisodeStep(0)
  /\ useEffect

\* The "Cancel Calibration" button.
cancelCalibration ==
  /\ appState = "CALIBRATING"
  /\ appState' = "REVIEW"
  /\ UNCHANGED <<batchImage, result, selectedItemId,
                 isCalibratingInit, editMode, calibration, canvasVars, asyncVars,
                 error, analysedImage>>
  /\ EpisodeStep(0)
  /\ useEffect

\* The "Refine Segments" / "Finish Refining" button.
toggleEditMode ==
  /\ CanvasMounted
  /\ result.some
  /\ editMode' = ~editMode
  /\ UNCHANGED <<appState, batchImage, result, selectedItemId,
                 isCalibratingInit, calibration, canvasVars, asyncVars,
                 error, analysedImage>>
  /\ EpisodeStep(0)
  /\ useEffect

\* The Abort button; ItemCanvas unmounts and its state is discarded.
abort ==
  /\ CanvasMounted
  /\ batchImage' = 0
  /\ result' = NoResult
  /\ selectedItemId' = NoId
  /\ editMode' = FALSE
  /\ hoveredItemId' = NoId
  /\ calPoints' = <<>>
  /\ analysedImage' = 0
  /\ UNCHANGED <<appState, isCalibratingInit, calibration, asyncVars, error>>
  /\ EpisodeStep(0)
  /\ useEffect

\* selectedItem: the instance panel is rendered when it is truthy.
selectedItemShown ==
  /\ CanvasMounted
  /\ selectedItemId # NoId
  /\ result.some
  /\ findIndex(result.items, selectedItemId) # 0

\* The close button of the instance panel.
deselect ==
  /\ selectedItemShown
  /\ selectedItemId' = NoId
  /\ UNCHANGED <<appState, batchImage, result, isCalibratingInit,
                 editMode, calibration, canvasVars, asyncVars,
                 error, analysedImage>>
  /\ EpisodeStep(0)
  /\ useEffect

\* clearSelectedMask (the "Clear Mask" button).
clearSelectedMask ==
  /\ selectedItemShown
  /\ editMode
  /\ result' = clearSelectedMaskOf(result, selectedItemId)
  /\ UNCHANGED <<appState, batchImage, selectedItemId,
                 isCalibratingInit, editMode, calibration, canvasVars, asyncVars,
                 error, analysedImage>>
  /\ EpisodeStep(0)
  /\ useEffect

----------------------------------------------------------------------------
(* ItemCanvas.tsx: pointer events *)

\* handleMouseMove that keeps tracking the pointer while calibrating.
handleMouseMoveTracking(p) ==
  /\ CanvasMounted
  /\ hoveredItemId' =
       IF ~result.some THEN hoveredItemId ELSE hitTest(result.items, p)
  /\ UNCHANGED <<appVars, calPoints, asyncVars,
                 error, analysedImage>>
  /\ EpisodeStep(0)
  /\ useEffect

\* handleMouseMove
handleMouseMove(p) ==
  /\ CanvasMounted
  /\ hoveredItemId' =
       IF isCalibrating \/ ~result.some THEN hoveredItemId
       ELSE hitTest(result.items, p)
  /\ UNCHANGED <<appVars, calPoints, asyncVars,
                 error, analysedImage>>
  /\ EpisodeStep(0)
  /\ useEffect

\* handleClick while isCalibrating, with handleCalibrationUpdate inlined.
clickCalibrating(p) ==
  /\ isCalibrating
  /\ LET newPoints == Append(calPoints, p)
     IN  IF Len(calPoints) >= 2
         THEN UNCHANGED <<appState, result, calibration, calPoints>>
         ELSE IF Len(newPoints) = 2
         THEN LET points  == calibrationPair(newPoints)
                  pxPerMm == pxPerMmOf(points, calibration.referenceLengthMm)
              IN  /\ calibration' = [calibration EXCEPT
                                       !.pixelsPerMm = pxPerMm,
                                       !.startPoint = points[1],
                                       !.endPoint = points[2]]
                  /\ result' = IF result.some
                               THEN Some(updatePhysicalMetrics(result.items, pxPerMm))
                               ELSE result
                  /\ appState' = "REVIEW"
                  /\ calPoints' = <<>>
         ELSE /\ calPoints' = newPoints
              /\ UNCHANGED <<appState, result, calibration>>
  /\ UNCHANGED <<batchImage, selectedItemId, isCalibratingInit,
                 editMode, hoveredItemId, asyncVars,
                 error, analysedImage>>
  /\ EpisodeStep(1)
  /\ useEffect

\* handleClick in edit mode with a selection, with handleMaskUpdate inlined.
clickEditing(p) ==
  /\ ~isCalibrating
  /\ editMode /\ selectedItemId # NoId /\ result.some
  /\ LET idx == findIndex(result.items, selectedItemId)
     IN  IF idx # 0
         THEN LET item    == result.items[idx]
                  newMask == appendVertex(item.mask, p)
              IN  /\ Len(item.mask) < session.maskLimit
                  /\ result' = Some(withMask(result.items, item.id, newMask))
         ELSE UNCHANGED result
  /\ UNCHANGED <<appState, batchImage, selectedItemId,
                 isCalibratingInit, editMode, calibration, canvasVars, asyncVars,
                 error, analysedImage>>
  /\ EpisodeStep(0)
  /\ useEffect

\* clickSelecting that selects whether or not the mask editor took the click.
clickSelectingAlways(p) ==
  /\ ~isCalibrating
  /\ LET idx == IF hoveredItemId # NoId /\ result.some
                THEN findIndex(result.items, hoveredItemId) ELSE 0
     IN  IF idx # 0
         THEN selectedItemId' = result.items[idx].id
         ELSE UNCHANGED selectedItemId
  /\ UNCHANGED <<appState, batchImage, result, isCalibratingInit,
                 editMode, calibration, canvasVars, asyncVars,
                 error, analysedImage>>
  /\ EpisodeStep(0)
  /\ useEffect

\* handleClick otherwise: select the hovered item.
clickSelecting(p) ==
  /\ ~isCalibrating
  /\ ~(editMode /\ selectedItemId # NoId /\ result.some)
  /\ LET idx == IF hoveredItemId # NoId /\ result.some
                THEN findIndex(result.items, hoveredItemId) ELSE 0
     IN  IF idx # 0
         THEN selectedItemId' = result.items[idx].id
         ELSE UNCHANGED selectedItemId
  /\ UNCHANGED <<appState, batchImage, result, isCalibratingInit,
                 editMode, calibration, canvasVars, asyncVars,
                 error, analysedImage>>
  /\ EpisodeStep(0)
  /\ useEffect

\* handleClick
handleClick(p) ==
  /\ CanvasMounted
  /\ \/ clickCalibrating(p)
     \/ clickEditing(p)
     \/ clickSelecting(p)

\* img.onload of the effect, for the i-th pending load in order of
\* creation: render() paints the frame of the commit that created the load.
imageLoaded(i) ==
  /\ CanvasMounted
  /\ i \in 1..loads.pending
  /\ surface' = IF i = loads.pending /\ loads.latest THEN "latest" ELSE "stale"
  /\ loads' = [pending |-> loads.pending - 1,
               latest  |-> loads.latest /\ i < loads.pending]
  /\ olderLoads' = i - 1
  /\ UNCHANGED <<appVars, canvasVars, asyncVars, error, analysedImage>>
  /\ EpisodeStep(0)

----------------------------------------------------------------------------
(* ItemCanvas.tsx: render *)

\* The sum of the x (or y) coordinates of pts.
RECURSIVE sumCoord(_, _)
sumCoord(pts, ofX) ==
  IF pts = <<>> THEN Num(0)
  ELSE Add(IF ofX THEN Head(pts).x ELSE Head(pts).y, sumCoord(Tail(pts), ofX))

\* The centroid of a mask in render space: (cx / item.mask.length / 1000)
\* * canvas.width, and the same for cy; NaN for an empty mask.
centroid(mask) ==
  [x |-> Mul(Div(Div(sumCoord(mask, TRUE), Num(Len(mask))), Num(1000)),
             Num(CanvasWidth)),
   y |-> Mul(Div(Div(sumCoord(mask, FALSE), Num(Len(mask))), Num(1000)),
             Num(CanvasHeight))]

\* boxRect taking the box's far corner for its extent.
boxRectToCorner(boundingBox) ==
  [x |-> Mul(Div(boundingBox[2], Num(1000)), Num(CanvasWidth)),
   y |-> Mul(Div(boundingBox[1], Num(1000)), Num(CanvasHeight)),
   w |-> Mul(Div(boundingBox[4], Num(1000)), Num(CanvasWidth)),
   h |-> Mul(Div(boundingBox[3], Num(1000)), Num(CanvasHeight))]

\* The rectangle handed to strokeRect for a bounding box.
boxRect(boundingBox) ==
  [x |-> Mul(Div(boundingBox[2], Num(1000)), Num(CanvasWidth)),
   y |-> Mul(Div(boundingBox[1], Num(1000)), Num(CanvasHeight)),
   w |-> Mul(Div(Sub(boundingBox[4], boundingBox[2]), Num(1000)),
             Num(CanvasWidth)),
   h |-> Mul(Div(Sub(boundingBox[3], boundingBox[1]), Num(1000)),
             Num(CanvasHeight))]

\* What one pass of result.items.forEach draws for the item at index i:
\* whether the 1.05 lift about centroid(item.mask) is applied, the mask path
\* and whether it is filled and stroked, whether the vertex handles are
\* drawn, whether the box is drawn (at boxRect(item.boundingBox)), and
\* whether the badge is drawn (at the centroid).  Canvas calls with a NaN
\* argument (translate, fillRect and fillText at the centroid of an empty
\* mask) draw nothing and raise nothing.
itemOverlay(i, showMasks, showBoxes) ==
  LET item       == result.items[i]
      isHovered  == hoveredItemId # NoId /\ hoveredItemId = item.id
      isSelected == selectedItemId # NoId /\ selectedItemId = item.id
  IN  [id      |-> item.id,
       lifted  |-> isHovered,
       mask    |-> IF showMasks
                   THEN [k \in 1..Len(item.mask) |-> ToRenderSpace(item.mask[k])]
                   ELSE <<>>,
       fill    |-> showMasks,
       handles |-> showMasks /\ editMode /\ isSelected,
       box     |-> showBoxes,
       badge   |-> isHovered \/ isSelected]

\* render that draws the stored calibration line in every mode.
renderKeepingLine(showMasks, showBoxes) ==
  [items  |-> IF result.some /\ ~isCalibrating
              THEN [i \in 1..Len(result.items) |->
                      itemOverlay(i, showMasks, showBoxes)]
              ELSE <<>>,
   line   |-> IF calibration.startPoint # NoPoint /\ calibration.endPoint # NoPoint
              THEN <<calibration.startPoint, calibration.endPoint>>
              ELSE <<>>,
   dim    |-> isCalibrating,
   points |-> IF isCalibrating THEN calPoints ELSE <<>>]

\* render: the overlays of one frame, by layer in draw order (item
\* overlays, stored calibration line, calibration overlay).  showMasks and
\* showBoxes are the display toggles of App, which only render reads.
render(showMasks, showBoxes) ==
  [items  |-> IF result.some /\ ~isCalibrating
              THEN [i \in 1..Len(result.items) |->
                      itemOverlay(i, showMasks, showBoxes)]
              ELSE <<>>,
   line   |-> IF /\ calibration.startPoint # NoPoint
                 /\ calibration.endPoint # NoPoint
                 /\ ~isCalibrating
              THEN <<calibration.startPoint, calibration.endPoint>>
              ELSE <<>>,
   dim    |-> isCalibrating,
   points |-> IF isCalibrating THEN calPoints ELSE <<>>]

----------------------------------------------------------------------------
(* Specification *)

Next ==
  \/ continueToWorkspace
  \/ returnToSetup
  \/ \E img \in session.images : handleBatchUpload(img)
  \/ \E i \in 1..MaxReads : batchReaderLoaded(i)
  \/ processBatch
  \/ \E i \in 1..MaxAnalyses, items \in session.detections :
        analysisResolved(i, items)
  \/ \E i \in 1..MaxAnalyses : analysisRejected(i)
  \/ \E v \in session.refValues : setReferenceLength(v)
  \/ startCalibration
  \/ calibrationTimeout
  \/ cancelCalibration
  \/ toggleEditMode
  \/ abort
  \/ deselect
  \/ clearSelectedMask
  \/ \E p \in MovePoints : handleMouseMove(p)
  \/ \E p \in ClickPoints : handleClick(p)
  \/ \E i \in 1..MaxLoads : imageLoaded(i)

Spec == Init /\ [][Next]_vars

----------------------------------------------------------------------------
(* Calibration state machine (spec 4.3), read off the state *)

\* Awaiting-Second-Point: calibrating with one point buffered.
AwaitingSecondPoint == isCalibrating /\ Len(calPoints) = 1

\* A canvas click at p that is the second click of a calibration pass.
CompletesPass(p) == CanvasMounted /\ AwaitingSecondPoint /\ handleClick(p)

----------------------------------------------------------------------------
(* Claims *)

\* C1: arming calibration (startCalibration) is rejected while
\* referenceLengthMm is not a positive finite number: no step taken with such
\* a reference length schedules the transition to CALIBRATING or sets the
\* "calibrating" flag.
C1_ArmingRejectedForInvalidReference ==
  [][~PositiveFinite(calibration.referenceLengthMm)
       => (timers' <= timers /\ (isCalibratingInit' => isCalibratingInit))]_vars

\* C3: cancelling calibration discards any buffered point: after the Cancel
\* step the click buffer is empty and CalibrationData is unchanged.
C3_CancelDiscardsBuffer ==
  [][cancelCalibration => (calPoints' = <<>> /\ calibration' = calibration)]_vars

\* C4: every entry into CALIBRATING starts with an empty click buffer.
C4_ArmedStartsEmpty ==
  [][(appState # "CALIBRATING" /\ appState' = "CALIBRATING")
       => calPoints' = <<>>]_vars


\* C2: the first canvas click made while calibrating only buffers the point;
\* the second one hands [first click, second click] to
\* handleCalibrationUpdate, which stores them as startPoint and endPoint,
\* empties the buffer and leaves CALIBRATING for REVIEW.
C2_TwoClickProtocol ==
  [][\A p \in ClickPoints :
       (CanvasMounted /\ isCalibrating /\ handleClick(p)) =>
         /\ armedClicks = 0 => /\ calPoints' = <<p>>
                               /\ calibration' = calibration
                               /\ result' = result
                               /\ appState' = appState
         /\ armedClicks = 1 => /\ calibration'.startPoint = calPoints[1]
                               /\ calibration'.endPoint = p
                               /\ calPoints' = <<>>
                               /\ appState' = "REVIEW"]_vars

\* q is sqrt(d2) / r as IEEE-754 division gives it.
IsRootOver(q, d2, r) ==
  IF r.k = "nan" THEN q = NaN
  ELSE IF r.k = "fin" /\ r.n # 0
       THEN /\ q.k = "fin"
            /\ q.n * r.n >= 0
            /\ q.n * q.n * r.n * r.n = d2 * q.d * q.d * r.d * r.d
  ELSE IF r.k = "fin"
       THEN q = (IF d2 = 0 THEN NaN ELSE PosInf)
  ELSE q = Num(0)

\* C5: the pass completed by the second click publishes pixelsPerMm =
\* (Euclidean distance of the two clicks) / (referenceLengthMm at that click)
\* together with the two clicks it was computed from; reference 10 with
\* clicks (0,0) and (30,40) gives 5.
C5_PixelsPerMmIsDistanceOverReference ==
  /\ pxPerMmOf(<<Pt(0, 0), Pt(30, 40)>>, Num(10)) = Num(5)
  /\ [][\A p \in ClickPoints :
          CompletesPass(p) =>
            LET p0 == calPoints[1]
                dx == p.x.n - p0.x.n
                dy == p.y.n - p0.y.n
            IN  /\ calibration'.startPoint = p0
                /\ calibration'.endPoint = p
                /\ IsRootOver(calibration'.pixelsPerMm, dx * dx + dy * dy,
                              calibration.referenceLengthMm)]_vars

\* A pass of 30 px against a 10 mm reference has published 3 px/mm.
C5_Witness ==
  /\ calibration.pixelsPerMm = Num(3)
  /\ calibration.startPoint # calibration.endPoint
  /\ calibration.referenceLengthMm = Num(10)

\* The fields of CalibrationData a calibration pass derives.
Derived(c) == <<c.pixelsPerMm, c.startPoint, c.endPoint>>

\* C6: a step that edits referenceLengthMm leaves pixelsPerMm, startPoint,
\* endPoint and the detection result (every widthMm/heightMm) unchanged, and
\* the derived fields change only in the step that completes a pass.
C6_ReferenceEditKeepsDerived ==
  [][/\ calibration'.referenceLengthMm # calibration.referenceLengthMm
          => (Derived(calibration') = Derived(calibration) /\ result' = result)
     /\ Derived(calibration') # Derived(calibration)
          => \E p \in ClickPoints : CompletesPass(p)]_vars

\* pixelsPerMm = 3 was captured against 10 mm, the reference length has since
\* been edited to 0, and the items still carry the measurements of 3 px/mm.
C6_Witness ==
  /\ calibration.pixelsPerMm = Num(3)
  /\ calibration.referenceLengthMm = Num(0)
  /\ result.some
  /\ \A i \in 1..Len(result.items) : result.items[i].widthMm.k = "fin"

\* w is the exact quotient e rounded to two decimal places.
IsRound2(w, e) ==
  IF e.k # "fin" THEN w = e
  ELSE /\ w.k = "fin"
       /\ 100 % w.d = 0
       /\ 200 * Abs(w.n * e.d - e.n * w.d) <= w.d * e.d

\* The unrounded projection of a bounding-box extent under pixelsPerMm.
Projection(lo, hi, pixelsPerMm) == Div(Mul(Sub(hi, lo), Num(5)), pixelsPerMm)

\* C7: when a pass resolves with a detection result present, every item with
\* a non-empty mask gets widthMm = round2((xMax - xMin) * 5 / pixelsPerMm) and
\* heightMm = round2((yMax - yMin) * 5 / pixelsPerMm) for the pixelsPerMm
\* just derived.
C7_ResolutionProjectsItems ==
  [][\A p \in ClickPoints :
       (CompletesPass(p) /\ result.some) =>
         /\ result'.some
         /\ Len(result'.items) = Len(result.items)
         /\ \A i \in 1..Len(result'.items) :
              LET s == result'.items[i]
                  k == calibration'.pixelsPerMm
              IN  s.mask # <<>> =>
                    /\ IsRound2(s.widthMm,
                                Projection(s.boundingBox[2], s.boundingBox[4], k))
                    /\ IsRound2(s.heightMm,
                                Projection(s.boundingBox[1], s.boundingBox[3], k))]_vars

\* The 350 x 470 box of a masked item measured at 3 px/mm: 583.33 x 783.33 mm.
C7_Witness ==
  /\ result.some
  /\ calibration.pixelsPerMm = Num(3)
  /\ \E i \in 1..Len(result.items) :
       /\ result.items[i].mask # <<>>
       /\ result.items[i].widthMm = Fin(58333, 100)
       /\ result.items[i].heightMm = Fin(78333, 100)

\* C8: in every state that holds a detection result and a non-null
\* pixelsPerMm, every item's widthMm and heightMm are the two-decimal
\* projection of its bounding box under that pixelsPerMm, whether the
\* analysis started before or after the latest calibration pass.
C8_ItemsTrackPixelsPerMm ==
  (result.some /\ calibration.pixelsPerMm # Null) =>
    \A i \in 1..Len(result.items) :
      LET s == result.items[i]
          k == calibration.pixelsPerMm
      IN  /\ IsRound2(s.widthMm,
                      Projection(s.boundingBox[2], s.boundingBox[4], k))
          /\ IsRound2(s.heightMm,
                      Projection(s.boundingBox[1], s.boundingBox[3], k))

\* The items with every stored measurement erased.
Unmeasured(items) ==
  [i \in 1..Len(items) |-> [items[i] EXCEPT !.widthMm = Null, !.heightMm = Null]]

\* C9: updatePhysicalMetrics is idempotent and reads only bounding boxes:
\* applied to the items of any reachable result, a second application under
\* the published pixelsPerMm (3 px/mm before any pass) changes nothing, and
\* the outcome is the one obtained from the same items with their stored
\* widthMm/heightMm erased.
C9_ProjectionIdempotent ==
  result.some =>
    LET k == IF calibration.pixelsPerMm = Null THEN Num(3)
             ELSE calibration.pixelsPerMm
        once == updatePhysicalMetrics(result.items, k)
    IN  /\ updatePhysicalMetrics(once, k) = once
        /\ updatePhysicalMetrics(Unmeasured(result.items), k) = once

\* The items already carry the measurements of a pass clicked from (18,24)
\* back to (0,0), so re-projection starts from non-null widths.
C9_Witness ==
  /\ result.some
  /\ calibration.pixelsPerMm = Num(3)
  /\ calibration.startPoint = Pt(18, 24)
  /\ calibration.endPoint = Pt(0, 0)
  /\ \A i \in 1..Len(result.items) :
       result.items[i].widthMm.k = "fin" /\ result.items[i].widthMm.n > 0

\* The box of s contains render point p, bounds included: the comparison of
\* p / canvas size * 1000 with the box, cleared of the division.
Inside(s, p) ==
  /\ s.boundingBox[2].n * CanvasWidth <= 1000 * p.x.n
  /\ 1000 * p.x.n <= s.boundingBox[4].n * CanvasWidth
  /\ s.boundingBox[1].n * CanvasHeight <= 1000 * p.y.n
  /\ 1000 * p.y.n <= s.boundingBox[3].n * CanvasHeight

FirstInside(items, p) ==
  LET hits == {i \in 1..Len(items) : Inside(items[i], p)}
  IN  IF hits = {} THEN NoId
      ELSE items[CHOOSE i \in hits : \A j \in hits : i <= j].id

\* C11: a click outside calibration and edit modes selects (onItemClick) the
\* first item of the current result whose box contains the click's own
\* position and selects nothing when no box contains it, whatever preceded
\* the click.
C11_ClickHitTestsOwnPosition ==
  [][\A p \in ClickPoints :
       (~isCalibrating /\ ~editMode /\ CanvasMounted /\ handleClick(p)) =>
         LET hit == FirstInside(result.items, p)
         IN  selectedItemId' = IF hit = NoId THEN selectedItemId ELSE hit]_vars

\* C12 as stated: while isCalibrating or editMode is true no canvas click
\* changes the selection.
C12_NoSelectionInCalibrationOrEdit ==
  [][\A p \in ClickPoints :
       ((isCalibrating \/ editMode) /\ CanvasMounted /\ handleClick(p)) =>
         selectedItemId' = selectedItemId]_vars

\* C12 as amended: while isCalibrating is true, or editMode is true with an
\* item selected, no canvas click changes the selection; in edit mode with
\* an item of the result selected the click changes that item's mask.
C12_NoSelectionWhileEditingSelection ==
  [][\A p \in ClickPoints :
       ((isCalibrating \/ (editMode /\ selectedItemId # NoId))
          /\ CanvasMounted /\ handleClick(p)) =>
         /\ selectedItemId' = selectedItemId
         /\ (~isCalibrating /\ result.some
               /\ findIndex(result.items, selectedItemId) # 0)
              => result' # result]_vars

\* Edit mode, item "b" selected while "a" is hovered, and the mask of "b"
\* has grown by a click that did not move the selection to "a".
C12_Witness ==
  /\ editMode
  /\ selectedItemId = "b"
  /\ hoveredItemId = "a"
  /\ result.some
  /\ Len(result.items) = 2
  /\ result.items[2].mask = <<ToNormalized(Pt(18, 24))>>

\* v is render point p converted to normalized space on the canvas.
IsNormalizedOf(v, p) ==
  /\ v.x.k = "fin" /\ v.x.n * CanvasWidth = 1000 * p.x.n * v.x.d
  /\ v.y.k = "fin" /\ v.y.n * CanvasHeight = 1000 * p.y.n * v.y.d

\* C13: a click in edit mode with an item of the result selected replaces
\* that item's mask by the old mask followed by one new last vertex, the
\* click point in normalized space; starting from [(0,0),(10,0)], appending
\* the click at normalized (10,10) yields [(0,0),(10,0),(10,10)].
C13_EditClickAppendsLastVertex ==
  /\ appendVertex(<<Pt(0, 0), Pt(10, 0)>>, Pt(6, 8))
       = <<Pt(0, 0), Pt(10, 0), Pt(10, 10)>>
  /\ [][\A p \in ClickPoints :
          (/\ editMode /\ ~isCalibrating /\ result.some
           /\ findIndex(result.items, selectedItemId) # 0
           /\ CanvasMounted /\ handleClick(p)) =>
            LET idx == findIndex(result.items, selectedItemId)
                old == result.items[idx].mask
                new == result'.items[idx].mask
            IN  /\ Len(new) = Len(old) + 1
                /\ \A k \in 1..Len(old) : new[k] = old[k]
                /\ IsNormalizedOf(new[Len(new)], p)]_vars

\* The empty mask of "b" has grown by the clicks (18,24) and (0,0), in that
\* order.
C13_Witness ==
  /\ result.some
  /\ Len(result.items) = 2
  /\ result.items[2].mask = <<Pt(30, 30), Pt(0, 0)>>

\* res with the mask of every item whose id is id emptied, nothing else
\* touched.
IsCleared(after, res, id) ==
  /\ after.some = res.some
  /\ Len(after.items) = Len(res.items)
  /\ \A i \in 1..Len(res.items) :
       after.items[i] = IF res.items[i].id = id
                        THEN [res.items[i] EXCEPT !.mask = <<>>]
                        ELSE res.items[i]

\* C14: clearSelectedMask empties the mask of the selected item and leaves
\* every other field and every other item unchanged; it is a no-op when
\* nothing is selected or no result exists; applied twice it gives the same
\* state as applied once.
C14_ClearMaskFrameAndIdempotence ==
  /\ [](\A id \in {NoId, "a", "b", selectedItemId} :
          LET once == clearSelectedMaskOf(result, id)
          IN  /\ clearSelectedMaskOf(once, id) = once
              /\ (id = NoId \/ ~result.some) => once = result
              /\ (id # NoId /\ result.some) => IsCleared(once, result, id))
  /\ [][clearSelectedMask =>
          /\ IsCleared(result', result, selectedItemId)
          /\ UNCHANGED <<appState, batchImage, selectedItemId, editMode,
                         calibration, hoveredItemId, calPoints>>]_vars

\* Item "a", detected with a mask and since measured, is selected in edit
\* mode with its mask cleared.
C14_Witness ==
  /\ editMode
  /\ selectedItemId = "a"
  /\ result.some
  /\ result.items[1].id = "a"
  /\ result.items[1].mask = <<>>
  /\ result.items[1].widthMm # Null

\* C15: a canvas click changes a mask only in edit mode, outside
\* calibration, with selectedItemId naming an item of the current result,
\* and then only the mask of that item; no click adds or removes items.
C15_MaskEditorActiveOnlyOnSelection ==
  [][\A p \in ClickPoints :
       (CanvasMounted /\ handleClick(p)) =>
         LET changed == {i \in 1..Len(result.items) :
                           \/ i > Len(result'.items)
                           \/ result'.items[i].mask # result.items[i].mask}
         IN  /\ Len(result'.items) = Len(result.items)
             /\ changed # {} =>
                  /\ editMode
                  /\ ~isCalibrating
                  /\ \A i \in changed : result.items[i].id = selectedItemId]_vars

\* The mask detected for "a" has grown by one vertex while "b", listed
\* after it, still has none.
C15_Witness ==
  /\ result.some
  /\ Len(result.items) = 2
  /\ Len(result.items[1].mask) = 2
  /\ result.items[1].mask[1] = Pt(30, 30)
  /\ result.items[2].mask = <<>>

\* The masks of a result, in item order.
MasksOf(res) == [i \in 1..Len(res.items) |-> res.items[i].mask]

\* C16: while isCalibrating is true a pointer move leaves hoveredItemId
\* unchanged and a click leaves selectedItemId, hoveredItemId, editMode and
\* every mask unchanged; the first click of a pass changes the click buffer
\* only.
C16_CalibrationCapturesCanvasInput ==
  [][(isCalibrating /\ CanvasMounted) =>
       /\ \A p \in MovePoints :
            handleMouseMove(p) => hoveredItemId' = hoveredItemId
       /\ \A p \in ClickPoints :
            handleClick(p) =>
              /\ UNCHANGED <<selectedItemId, hoveredItemId, editMode, batchImage>>
              /\ result'.some = result.some
              /\ MasksOf(result') = MasksOf(result)
              /\ Len(calPoints) = 0 =>
                   (calPoints' = <<p>> /\ UNCHANGED <<result, calibration, appState>>)]_vars

\* Calibrating with one point buffered while edit mode is on and item "a" is
\* both selected and hovered, its detected mask intact.
C16_Witness ==
  /\ isCalibrating
  /\ Len(calPoints) = 1
  /\ editMode
  /\ selectedItemId = "a"
  /\ hoveredItemId = "a"
  /\ result.some
  /\ result.items[1].mask = <<Pt(30, 30)>>

\* What identifies the items of a result: ids in order with the fields no
\* operation on an existing result writes.
Identity(res) ==
  [i \in 1..Len(res.items) |->
     <<res.items[i].id, res.items[i].boundingBox, res.items[i].confidence,
       res.items[i].areaPx, res.items[i].label>>]

\* The measurements of a result, in item order.
MeasuresOf(res) ==
  [i \in 1..Len(res.items) |-> <<res.items[i].widthMm, res.items[i].heightMm>>]

\* A step that stores the result of an analysis.
ResultArrives ==
  \E i \in 1..Len(analyses), items \in session.detections :
     analysisResolved(i, items)

\* C17: a step from one result to another that is not the arrival of an
\* analysis keeps the ids, their order and each item's boundingBox,
\* confidence, areaPx and label; it changes either masks (of one item) or
\* widthMm/heightMm, never both, and a completed calibration pass changes no
\* mask.
C17_ItemIdentityStable ==
  [][(result' # result /\ result.some /\ result'.some /\ ~ResultArrives) =>
       /\ Identity(result') = Identity(result)
       /\ \/ /\ MeasuresOf(result') = MeasuresOf(result)
             /\ Cardinality({i \in 1..Len(result.items) :
                   result'.items[i].mask # result.items[i].mask}) = 1
          \/ /\ MasksOf(result') = MasksOf(result)
             /\ \E p \in ClickPoints : CompletesPass(p)]_vars

\* Both items are measured at 3 px/mm and the mask of "b" has been grown
\* by one vertex: the result went through a calibration and a mask edit.
C17_Witness ==
  /\ result.some
  /\ Len(result.items) = 2
  /\ Len(result.items[2].mask) = 1
  /\ result.items[2].widthMm = Num(1000)
  /\ calibration.pixelsPerMm = Num(3)

\* C18: every item of the result held in application state has a
\* four-element boundingBox of finite numbers with
\* 0 <= yMin <= yMax <= 1000 and 0 <= xMin <= xMax <= 1000.
C18_BoundingBoxesWellFormed ==
  result.some =>
    \A i \in 1..Len(result.items) :
      LET b == result.items[i].boundingBox
      IN  /\ Len(b) = 4
          /\ \A k \in 1..4 : b[k].k = "fin"
          /\ 0 <= b[1].n /\ b[1].n * b[3].d <= b[3].n * b[1].d
          /\ b[3].n <= 1000 * b[3].d
          /\ 0 <= b[2].n /\ b[2].n * b[4].d <= b[4].n * b[2].d
          /\ b[4].n <= 1000 * b[4].d

\* Normalized points the round trip is tried on, in and out of range.
NormalizedSamples ==
  {[x |-> Num(0), y |-> Num(0)], [x |-> Num(1000), y |-> Num(1000)],
   [x |-> Num(333), y |-> Num(7)], [x |-> Num(-50), y |-> Num(1200)],
   [x |-> Fin(1, 3), y |-> Fin(-7, 2)]}

\* C19: converting a normalized point to render space and back returns the
\* point, unclamped, for sample points and for every mask vertex of a
\* reachable result; a vertex appended by an edit click is drawn at the
\* position clicked.
C19_RoundTripTransform ==
  /\ \A n \in NormalizedSamples : ToNormalized(ToRenderSpace(n)) = n
  /\ [](\A i \in 1..Len(result.items) :
          \A k \in 1..Len(result.items[i].mask) :
            LET v == result.items[i].mask[k]
            IN  ToNormalized(ToRenderSpace(v)) = v)
  /\ [][\A p \in ClickPoints :
          (/\ editMode /\ ~isCalibrating /\ result.some
           /\ findIndex(result.items, selectedItemId) # 0
           /\ CanvasMounted /\ handleClick(p)) =>
            LET new == result'.items[
                         findIndex(result.items, selectedItemId)].mask
            IN  ToRenderSpace(new[Len(new)]) = p]_vars

\* The empty mask of "b" has grown by the clicks (0,0) and (18,24), in that
\* order, and "b" is still selected.
C19_Witness ==
  /\ result.some
  /\ Len(result.items) = 2
  /\ selectedItemId = "b"
  /\ result.items[2].mask = <<Pt(0, 0), Pt(30, 30)>>

\* C20: while calibrating a frame holds no item overlay and no stored
\* calibration line, only the dim overlay and the buffered points; otherwise
\* it holds one item overlay per item in result order and no dim overlay, and
\* the stored calibration line exactly when startPoint and endPoint both
\* exist; for every setting of the display toggles.
C20_OverlaysFollowCalibrationMode ==
  CanvasMounted =>
    \A showMasks \in BOOLEAN, showBoxes \in BOOLEAN :
      LET frame == render(showMasks, showBoxes)
      IN  IF isCalibrating
          THEN /\ frame.items = <<>>
               /\ frame.line = <<>>
               /\ frame.dim
               /\ frame.points = calPoints
          ELSE /\ ~frame.dim
               /\ frame.points = <<>>
               /\ Len(frame.items) = Len(result.items)
               /\ \A i \in 1..Len(result.items) :
                    frame.items[i].id = result.items[i].id
               /\ frame.line # <<>> <=>
                    (calibration.startPoint # NoPoint
                       /\ calibration.endPoint # NoPoint)

\* A second calibration pass is under way, one point buffered, while the
\* line of the first pass is stored and a result is present.
C20_Witness ==
  /\ CanvasMounted
  /\ isCalibrating
  /\ Len(calPoints) = 1
  /\ calibration.startPoint # NoPoint
  /\ calibration.endPoint # NoPoint
  /\ result.some
  /\ hoveredItemId = NoId

\* C21: in a non-calibrating frame, for every setting of the display
\* toggles and every item: the vertex handles are drawn exactly when editMode
\* is on and the item is the selected one, the mask path is filled exactly
\* when showMasks is on, the box is drawn exactly when showBoxes is on, and
\* the badge exactly when the item is hovered or selected.
C21_OverlayPartsFollowTheirFlags ==
  (CanvasMounted /\ ~isCalibrating /\ result.some) =>
    \A showMasks \in BOOLEAN, showBoxes \in BOOLEAN :
      \A i \in 1..Len(result.items) :
        LET o    == render(showMasks, showBoxes).items[i]
            item == result.items[i]
        IN  /\ o.handles <=> (editMode /\ selectedItemId = item.id)
            /\ o.fill <=> showMasks
            /\ o.box <=> showBoxes
            /\ o.badge <=> (hoveredItemId = item.id \/ selectedItemId = item.id)

C22_LatestFramePainted ==
  /\ []((CanvasMounted /\ loads.pending = 0) => surface = "latest")
  /\ [][\A i \in 1..MaxLoads :
          (CanvasMounted /\ i <= loads.pending /\ imageLoaded(i))
            => i > olderLoads]_vars

\* C24: pixelsPerMm is null or a strictly positive finite number, and every
\* widthMm and heightMm stored on an item is a finite number that is not
\* negative.
C24_ScaleAndMeasuresWellDefined ==
  /\ calibration.pixelsPerMm = Null \/ PositiveFinite(calibration.pixelsPerMm)
  /\ \A i \in 1..Len(result.items) :
       \A m \in {result.items[i].widthMm, result.items[i].heightMm} :
         m = Null \/ (m.k = "fin" /\ m.n >= 0)

\* C25: whenever appState is CALIBRATING a batch image and a detection
\* result are present.
C25_CalibratingHasImageAndResult ==
  isCalibrating => (batchImage # 0 /\ result.some)

\* C26: a detection result is present only if a batch image is present and
\* the result was computed from that image.
C26_ResultBelongsToDisplayedImage ==
  result.some => (batchImage # 0 /\ analysedImage = batchImage)

\* C27: selectedItemId is null or the id of an item of the current result;
\* and a click in edit mode with a selection, outside calibration, makes
\* the mask of an item of the result one vertex longer.
C27_SelectionRefersToCurrentItem ==
  /\ [](selectedItemId # NoId =>
         (result.some /\ findIndex(result.items, selectedItemId) # 0))
  /\ [][\A p \in ClickPoints :
          (/\ editMode /\ selectedItemId # NoId /\ ~isCalibrating
           /\ CanvasMounted /\ handleClick(p)) =>
            \E i \in 1..Len(result.items) :
              /\ i <= Len(result'.items)
              /\ Len(result'.items[i].mask) = Len(result.items[i].mask) + 1]_vars

\* pixelsPerMm, startPoint and endPoint are all null or all set.
AllOrNone(c) ==
  \/ c.pixelsPerMm = Null /\ c.startPoint = NoPoint /\ c.endPoint = NoPoint
  \/ c.pixelsPerMm # Null /\ c.startPoint # NoPoint /\ c.endPoint # NoPoint

\* C28: in every state pixelsPerMm, startPoint and endPoint are all null or
\* all non-null, a step changes all three or none, and an edit of the
\* reference length stores the value typed and leaves the three as they are.
C28_CalibrationUpdatedAtomically ==
  /\ [](AllOrNone(calibration))
  /\ [][/\ (calibration' # calibration /\ appState' # appState) =>
            (/\ calibration'.referenceLengthMm = calibration.referenceLengthMm
             /\ calibration'.pixelsPerMm # Null
             /\ calibration'.startPoint # NoPoint
             /\ calibration'.endPoint # NoPoint)
         /\ \A v \in RefValues :
              (ScalePanel /\ UNCHANGED appState /\ setReferenceLength(v)) =>
                /\ calibration'.referenceLengthMm = v
                /\ calibration'.pixelsPerMm = calibration.pixelsPerMm
                /\ calibration'.startPoint = calibration.startPoint
                /\ calibration'.endPoint = calibration.endPoint]_vars

\* A calibration pass has completed with both clicks at (18,24), and the
\* reference length has been set to 0 afterwards.
C28_Witness ==
  /\ calibration.pixelsPerMm = Num(0)
  /\ calibration.startPoint = Pt(18, 24)
  /\ calibration.endPoint = Pt(18, 24)
  /\ calibration.referenceLengthMm = Num(0)

\* C29: an analysis that fails sets the error message and leaves result,
\* calibration and selection as they are; one that succeeds stores a result
\* made of the items returned; the application goes to IDLE after a failure
\* and to REVIEW after a success, and stays in CALIBRATING if a calibration
\* pass is under way when the outcome arrives.
C29_AnalysisOutcomeKeepsCalibrationPass ==
  [][\A i \in 1..MaxAnalyses :
       (i <= Len(analyses)) =>
         /\ analysisRejected(i) =>
              /\ error'
              /\ UNCHANGED <<result, calibration, selectedItemId>>
              /\ appState' = IF isCalibrating THEN "CALIBRATING" ELSE "IDLE"
         /\ \A items \in session.detections :
              analysisResolved(i, items) =>
                /\ result'.some
                /\ Identity(result') = Identity(Some(items))
                /\ appState' = IF isCalibrating THEN "CALIBRATING"
                                ELSE "REVIEW"]_vars

====
